---- MODULE Spec2Model ----
(***************************************************************************)
(* A model of hv_midi_seq/midi_to_table_msg.py: the tempo map, the tick to *)
(* millisecond resolver, note extraction, voice assignment, the x-axis     *)
(* tick marks and the main pipeline.                                       *)
(*                                                                         *)
(* Numbers.  The program computes milliseconds in binary floating point.   *)
(* Here abs_ticks_to_ms returns the exact rational num/den (den is         *)
(* ppq * 1000), and a value rounded by round(x, 3) is held as an integer   *)
(* number of thousandths of a millisecond.  Floating point rounding error  *)
(* is outside the model.                                                   *)
(***************************************************************************)
EXTENDS Integers, Sequences, FiniteSets, Bags, TLC

VARIABLES
    pc,          \* position of the run
    stream,      \* mido.merge_tracks(mid.tracks): the merged messages of the file
    ppq,         \* mid.ticks_per_beat
    tempo_map,   \* extract: tempo_map
    abs_tick,    \* extract: abs_tick
    ex_i,        \* extract: number of messages of the stream already consumed
    active,      \* extract: active, a function from (note, channel) to (tick, velocity)
    notes,       \* extract: notes; assign_voices: the notes argument
    max_voices,  \* args.max_voices
    voices,      \* assign_voices: voices
    end_ms,      \* assign_voices: end_ms
    av_i,        \* assign_voices: number of notes already placed
    placed_log,  \* history: for each placed note, the voice and the branch that placed it
    out,         \* the content written to <base>_init_msg.txt, <<>> while nothing is written
    n,           \* xlabel_marks: n
    max_marks,   \* xlabel_marks: max_marks
    marks        \* xlabel_marks: the returned list

vars == <<pc, stream, ppq, tempo_map, abs_tick, ex_i, active, notes, max_voices,
          voices, end_ms, av_i, placed_log, out, n, max_marks, marks>>

(***************************************************************************)
(* Bounds and input domains                                                *)
(***************************************************************************)
MaxEvents == 3

MaxNotes == 3

MaxOnset == 2

MaxDur == 3

MaxVoicesBound == 2

MaxN == 45

MaxMarksBound == 3

DefaultTempo == 500000

DefaultMaxMarks == 20

DefaultMaxVoices == 3

Deltas == {0, 1}

PPQs == {3}

Tempos == {1000000}

Keys == {<<60, 0>>, <<60, 1>>}

Pitches == {60}

Velocities == {64, 100}

Msg(type, time, note, channel, velocity, tempo) ==
    [type |-> type, time |-> time, note |-> note, channel |-> channel,
     velocity |-> velocity, tempo |-> tempo]

Messages ==
    {Msg("note_on", d, k[1], k[2], v, 0) : d \in Deltas, k \in Keys, v \in Velocities \cup {0}}
    \cup {Msg("note_off", d, k[1], k[2], 64, 0) : d \in Deltas, k \in Keys}
    \cup {Msg("set_tempo", d, 0, 0, 0, t) : d \in Deltas, t \in Tempos}
    \cup {Msg("program_change", d, 0, 0, 0, 0) : d \in Deltas}

(***************************************************************************)
(* Timing                                                                  *)
(***************************************************************************)
Seg(tick, tempo) == [tick |-> tick, tempo |-> tempo]

\* The absolute tick of message i of s (the running sum of msg.time), 0 for i = 0.
RECURSIVE TickOf(_, _)
TickOf(s, i) == IF i = 0 THEN 0 ELSE TickOf(s, i - 1) + s[i].time

RECURSIVE TempoEntries(_, _)
TempoEntries(s, i) ==
    IF i > Len(s) THEN <<>>
    ELSE (IF s[i].type = "set_tempo"
          THEN <<Seg(TickOf(s, i), s[i].tempo)>> ELSE <<>>)
         \o TempoEntries(s, i + 1)

build_tempo_map(s) == <<Seg(0, DefaultTempo)>> \o TempoEntries(s, 1)

\* TicksLoop with "ms =" for "ms +=" at line 53: the earlier segments are lost.
RECURSIVE TicksLoop_Reset(_, _, _, _, _, _)
TicksLoop_Reset(tick, tmap, i, ms, prev_tick, prev_tempo) ==
    IF i > Len(tmap) \/ tick <= tmap[i].tick
    THEN ms + (tick - prev_tick) * prev_tempo
    ELSE TicksLoop_Reset(tick, tmap, i + 1,
                         (tmap[i].tick - prev_tick) * prev_tempo,
                         tmap[i].tick, tmap[i].tempo)

\* TicksLoop with a passed segment charged at the tempo that starts at its end.
RECURSIVE TicksLoop_NewTempo(_, _, _, _, _, _)
TicksLoop_NewTempo(tick, tmap, i, ms, prev_tick, prev_tempo) ==
    IF i > Len(tmap) \/ tick <= tmap[i].tick
    THEN ms + (tick - prev_tick) * prev_tempo
    ELSE TicksLoop_NewTempo(tick, tmap, i + 1,
                            ms + (tmap[i].tick - prev_tick) * tmap[i].tempo,
                            tmap[i].tick, tmap[i].tempo)

\* The for loop of abs_ticks_to_ms from entry i on, with the loop's variables.
RECURSIVE TicksLoop(_, _, _, _, _, _)
TicksLoop(tick, tmap, i, ms, prev_tick, prev_tempo) ==
    IF i > Len(tmap) \/ tick <= tmap[i].tick
    THEN ms + (tick - prev_tick) * prev_tempo
    ELSE TicksLoop(tick, tmap, i + 1,
                   ms + (tmap[i].tick - prev_tick) * prev_tempo,
                   tmap[i].tick, tmap[i].tempo)

\* ticks * (tempo / ppq / 1000.0), summed: the rational num / den milliseconds.
abs_ticks_to_ms(tick, p, tmap) ==
    [num |-> TicksLoop(tick, tmap, 2, 0, tmap[1].tick, tmap[1].tempo),
     den |-> p * 1000]

\* round(x, 3) of the rational x, in thousandths of a millisecond (ties to even).
\* x.den is ppq * 1000, so x is x.num / (x.den / 1000) thousandths.
Round3(x) ==
    LET d == x.den \div 1000
        q == x.num \div d
        r == x.num % d
    IN  IF 2 * r < d THEN q
        ELSE IF 2 * r > d THEN q + 1
        ELSE IF q % 2 = 0 THEN q ELSE q + 1

(***************************************************************************)
(* Extraction                                                              *)
(***************************************************************************)
Note(pitch, vel, dur_ms, onset_ms) ==
    [pitch |-> pitch, vel |-> vel, dur_ms |-> dur_ms, onset_ms |-> onset_ms]

NoActive == [k \in {} |-> 0]

\* The sort key of notes.sort: (n[3], n[0]).
KeyLeq(a, b) ==
    \/ a.onset_ms < b.onset_ms
    \/ a.onset_ms = b.onset_ms /\ a.pitch <= b.pitch

\* list.sort is stable: x goes after every element whose key is <= its own.
RECURSIVE InsertSorted(_, _)
InsertSorted(s, x) ==
    IF s = <<>> THEN <<x>>
    ELSE IF KeyLeq(s[1], x) THEN <<s[1]>> \o InsertSorted(Tail(s), x)
    ELSE <<x>> \o s

RECURSIVE SortNotes(_)
SortNotes(s) ==
    IF s = <<>> THEN <<>>
    ELSE InsertSorted(SortNotes(SubSeq(s, 1, Len(s) - 1)), s[Len(s)])

\* The note appended at lines 85-89 for a note opened at on_tick and closed at off_tick.
ClosedNote(pitch, vel, on_tick, off_tick, p, tmap) ==
    LET onset_ms  == Round3(abs_ticks_to_ms(on_tick, p, tmap))
        offset_ms == Round3(abs_ticks_to_ms(off_tick, p, tmap))
    IN  Note(pitch, vel, offset_ms - onset_ms, onset_ms)

IsClosing(m) ==
    m.type = "note_off" \/ (m.type = "note_on" /\ m.velocity = 0)

\* mido.MidiFile(midi_path): the file holds one more message.
LoadEvent ==
    /\ pc = "load"
    /\ Len(stream) < MaxEvents
    /\ \E m \in Messages : stream' = Append(stream, m)
    /\ UNCHANGED <<pc, ppq, tempo_map, abs_tick, ex_i, active, notes, max_voices,
                   voices, end_ms, av_i, placed_log, out, n, max_marks, marks>>

\* extract, lines 64-71.
ExtractStart ==
    /\ pc = "load"
    /\ pc' = "extract"
    /\ tempo_map' = build_tempo_map(stream)
    /\ active' = NoActive
    /\ notes' = <<>>
    /\ abs_tick' = 0
    /\ ex_i' = 0
    /\ UNCHANGED <<stream, ppq, max_voices, voices, end_ms, av_i, placed_log, out,
                   n, max_marks, marks>>

\* One iteration of the loop of extract on a set_tempo message.
ExtractSetTempo ==
    /\ pc = "extract"
    /\ ex_i < Len(stream)
    /\ stream[ex_i + 1].type = "set_tempo"
    /\ abs_tick' = abs_tick + stream[ex_i + 1].time
    /\ ex_i' = ex_i + 1
    /\ UNCHANGED <<pc, stream, ppq, tempo_map, active, notes, max_voices, voices,
                   end_ms, av_i, placed_log, out, n, max_marks, marks>>

\* ExtractNoteOn that keeps the earlier note_on of a key that is already open.
ExtractNoteOn_KeepFirst ==
    /\ pc = "extract"
    /\ ex_i < Len(stream)
    /\ LET msg == stream[ex_i + 1]
           key == <<msg.note, msg.channel>>
           t   == abs_tick + msg.time
       IN  /\ msg.type = "note_on" /\ msg.velocity > 0
           /\ abs_tick' = t
           /\ active' = [k \in DOMAIN active \cup {key} |->
                            IF k \in DOMAIN active THEN active[k]
                            ELSE [tick |-> t, vel |-> msg.velocity]]
    /\ ex_i' = ex_i + 1
    /\ UNCHANGED <<pc, stream, ppq, tempo_map, notes, max_voices, voices, end_ms,
                   av_i, placed_log, out, n, max_marks, marks>>

\* One iteration on a note_on with velocity > 0.
ExtractNoteOn ==
    /\ pc = "extract"
    /\ ex_i < Len(stream)
    /\ LET msg == stream[ex_i + 1]
           key == <<msg.note, msg.channel>>
           t   == abs_tick + msg.time
       IN  /\ msg.type = "note_on" /\ msg.velocity > 0
           /\ abs_tick' = t
           /\ active' = [k \in DOMAIN active \cup {key} |->
                            IF k = key THEN [tick |-> t, vel |-> msg.velocity]
                            ELSE active[k]]
    /\ ex_i' = ex_i + 1
    /\ UNCHANGED <<pc, stream, ppq, tempo_map, notes, max_voices, voices, end_ms,
                   av_i, placed_log, out, n, max_marks, marks>>

\* One iteration on a note_off, or a note_on with velocity 0.
ExtractNoteOff ==
    /\ pc = "extract"
    /\ ex_i < Len(stream)
    /\ LET msg == stream[ex_i + 1]
           key == <<msg.note, msg.channel>>
           t   == abs_tick + msg.time
       IN  /\ IsClosing(msg)
           /\ abs_tick' = t
           /\ \/ /\ key \in DOMAIN active
                 /\ active' = [k \in DOMAIN active \ {key} |-> active[k]]
                 /\ notes' = Append(notes,
                        ClosedNote(msg.note, active[key].vel, active[key].tick, t,
                                   ppq, tempo_map))
              \/ /\ key \notin DOMAIN active
                 /\ UNCHANGED <<active, notes>>
    /\ ex_i' = ex_i + 1
    /\ UNCHANGED <<pc, stream, ppq, tempo_map, max_voices, voices, end_ms, av_i,
                   placed_log, out, n, max_marks, marks>>

\* One iteration on a message of any other type.
ExtractOther ==
    /\ pc = "extract"
    /\ ex_i < Len(stream)
    /\ stream[ex_i + 1].type \notin {"set_tempo", "note_on", "note_off"}
    /\ abs_tick' = abs_tick + stream[ex_i + 1].time
    /\ ex_i' = ex_i + 1
    /\ UNCHANGED <<pc, stream, ppq, tempo_map, active, notes, max_voices, voices,
                   end_ms, av_i, placed_log, out, n, max_marks, marks>>

\* extract, lines 91-92: the loop is over, the notes are sorted and returned.
ExtractReturn ==
    /\ pc = "extract"
    /\ ex_i = Len(stream)
    /\ notes' = SortNotes(notes)
    /\ pc' = "main"
    /\ UNCHANGED <<stream, ppq, tempo_map, abs_tick, ex_i, active, max_voices,
                   voices, end_ms, av_i, placed_log, out, n, max_marks, marks>>

(***************************************************************************)
(* Voice assignment                                                        *)
(***************************************************************************)
Entry(pitch, vel, dur_ms) == [pitch |-> pitch, vel |-> vel, dur_ms |-> dur_ms]

Silence == Entry(0, 0, 0)

EntryOf(note) == Entry(note.pitch, note.vel, note.dur_ms)

\* Lines 105-110: the first i from i on with onset_ms >= end_ms[i], 0 when the
\* loop ends without placing the note.
RECURSIVE FirstFree(_, _, _)
FirstFree(e, onset_ms, i) ==
    IF i > Len(e) THEN 0
    ELSE IF onset_ms >= e[i] THEN i
    ELSE FirstFree(e, onset_ms, i + 1)

\* min(end_ms)
RECURSIVE MinOf(_)
MinOf(e) ==
    IF Len(e) = 1 THEN e[1]
    ELSE LET m == MinOf(Tail(e)) IN IF e[1] <= m THEN e[1] ELSE m

\* IndexOf that returns the last index holding x.
RECURSIVE IndexOf_Last(_, _, _)
IndexOf_Last(e, x, i) ==
    LET I == {j \in i..Len(e) : e[j] = x}
    IN  CHOOSE j \in I : \A k \in I : k <= j

\* end_ms.index(x): the first index holding x.
RECURSIVE IndexOf(_, _, _)
IndexOf(e, x, i) == IF e[i] = x THEN i ELSE IndexOf(e, x, i + 1)

\* Line 113: max_voices and len(voices) >= max_voices.
AtCap(v, mv) == mv # 0 /\ Len(v) >= mv

\* Place with end_ms[i] = onset_ms: the duration is not added.
Place_NoDur(v, e, note, mv) ==
    LET f    == FirstFree(e, note.onset_ms, 1)
        stop == note.onset_ms
    IN  IF f # 0
        THEN [voices |-> [v EXCEPT ![f] = Append(@, EntryOf(note))],
              end_ms |-> [e EXCEPT ![f] = stop],
              voice  |-> f, how |-> "free"]
        ELSE IF AtCap(v, mv)
        THEN LET i == IndexOf(e, MinOf(e), 1)
             IN  [voices |-> [v EXCEPT ![i] = Append(@, EntryOf(note))],
                  end_ms |-> [e EXCEPT ![i] = stop],
                  voice  |-> i, how |-> "forced"]
        ELSE [voices |-> Append(v, <<EntryOf(note)>>),
              end_ms |-> Append(e, stop),
              voice  |-> Len(v) + 1, how |-> "new"]

\* Place whose forced branch overwrites the last note of the voice.
Place_Overwrite(v, e, note, mv) ==
    LET f    == FirstFree(e, note.onset_ms, 1)
        stop == note.onset_ms + note.dur_ms
    IN  IF f # 0
        THEN [voices |-> [v EXCEPT ![f] = Append(@, EntryOf(note))],
              end_ms |-> [e EXCEPT ![f] = stop],
              voice  |-> f, how |-> "free"]
        ELSE IF AtCap(v, mv)
        THEN LET i == IndexOf(e, MinOf(e), 1)
             IN  [voices |-> [v EXCEPT ![i] = [@ EXCEPT ![Len(@)] = EntryOf(note)]],
                  end_ms |-> [e EXCEPT ![i] = stop],
                  voice  |-> i, how |-> "forced"]
        ELSE [voices |-> Append(v, <<EntryOf(note)>>),
              end_ms |-> Append(e, stop),
              voice  |-> Len(v) + 1, how |-> "new"]

\* Place whose free branch leaves end_ms[i] as it was (line 108 missing).
Place_StaleEnd(v, e, note, mv) ==
    LET f    == FirstFree(e, note.onset_ms, 1)
        stop == note.onset_ms + note.dur_ms
    IN  IF f # 0
        THEN [voices |-> [v EXCEPT ![f] = Append(@, EntryOf(note))],
              end_ms |-> e,
              voice  |-> f, how |-> "free"]
        ELSE IF AtCap(v, mv)
        THEN LET i == IndexOf(e, MinOf(e), 1)
             IN  [voices |-> [v EXCEPT ![i] = Append(@, EntryOf(note))],
                  end_ms |-> [e EXCEPT ![i] = stop],
                  voice  |-> i, how |-> "forced"]
        ELSE [voices |-> Append(v, <<EntryOf(note)>>),
              end_ms |-> Append(e, stop),
              voice  |-> Len(v) + 1, how |-> "new"]

\* One iteration of the loop of assign_voices (lines 103-119): the voices and
\* end_ms after it, the voice that took the note and the branch taken.
Place(v, e, note, mv) ==
    LET f    == FirstFree(e, note.onset_ms, 1)
        stop == note.onset_ms + note.dur_ms
    IN  IF f # 0
        THEN [voices |-> [v EXCEPT ![f] = Append(@, EntryOf(note))],
              end_ms |-> [e EXCEPT ![f] = stop],
              voice  |-> f, how |-> "free"]
        ELSE IF AtCap(v, mv)
        THEN LET i == IndexOf(e, MinOf(e), 1)
             IN  [voices |-> [v EXCEPT ![i] = Append(@, EntryOf(note))],
                  end_ms |-> [e EXCEPT ![i] = stop],
                  voice  |-> i, how |-> "forced"]
        ELSE [voices |-> Append(v, <<EntryOf(note)>>),
              end_ms |-> Append(e, stop),
              voice  |-> Len(v) + 1, how |-> "new"]

RECURSIVE MaxLenOf(_)
MaxLenOf(v) ==
    IF Len(v) = 1 THEN Len(v[1])
    ELSE LET m == MaxLenOf(Tail(v)) IN IF Len(v[1]) >= m THEN Len(v[1]) ELSE m

Rests(k) == [j \in 1..k |-> Silence]

\* Pad without the silent voices of lines 129-130.
Pad_NoFill(v, mv) ==
    LET max_len == MaxLenOf(v)
    IN  [i \in 1..Len(v) |-> v[i] \o Rests(max_len - Len(v[i]))]

\* Lines 121-132: every voice padded to max_len, silent voices up to max_voices.
Pad(v, mv) ==
    LET max_len == MaxLenOf(v)
        padded  == [i \in 1..Len(v) |-> v[i] \o Rests(max_len - Len(v[i]))]
    IN  IF mv # 0 /\ Len(v) < mv
        THEN padded \o [i \in 1..(mv - Len(v)) |-> Rests(max_len)]
        ELSE padded

RECURSIVE PlaceAll(_, _, _, _, _)
PlaceAll(v, e, ns, i, mv) ==
    IF i > Len(ns) THEN [voices |-> v, end_ms |-> e]
    ELSE LET r == Place(v, e, ns[i], mv)
         IN  PlaceAll(r.voices, r.end_ms, ns, i + 1, mv)

assign_voices(ns, mv) == Pad(PlaceAll(<<>>, <<>>, ns, 1, mv).voices, mv)

\* One iteration of the loop of assign_voices that places the note in the first
\* free voice (lines 106-110).
PlaceFree ==
    /\ pc = "assign"
    /\ av_i < Len(notes)
    /\ LET r == Place(voices, end_ms, notes[av_i + 1], max_voices)
       IN  /\ r.how = "free"
           /\ voices' = r.voices
           /\ end_ms' = r.end_ms
           /\ placed_log' = Append(placed_log, [voice |-> r.voice, how |-> r.how])
    /\ av_i' = av_i + 1
    /\ UNCHANGED <<pc, stream, ppq, tempo_map, abs_tick, ex_i, active, notes,
                   max_voices, out, n, max_marks, marks>>

\* One iteration that finds no free voice at the cap (lines 113-116).
PlaceForced ==
    /\ pc = "assign"
    /\ av_i < Len(notes)
    /\ LET r == Place(voices, end_ms, notes[av_i + 1], max_voices)
       IN  /\ r.how = "forced"
           /\ voices' = r.voices
           /\ end_ms' = r.end_ms
           /\ placed_log' = Append(placed_log, [voice |-> r.voice, how |-> r.how])
    /\ av_i' = av_i + 1
    /\ UNCHANGED <<pc, stream, ppq, tempo_map, abs_tick, ex_i, active, notes,
                   max_voices, out, n, max_marks, marks>>

\* One iteration that finds no free voice below the cap (lines 117-119).
PlaceNew ==
    /\ pc = "assign"
    /\ av_i < Len(notes)
    /\ LET r == Place(voices, end_ms, notes[av_i + 1], max_voices)
       IN  /\ r.how = "new"
           /\ voices' = r.voices
           /\ end_ms' = r.end_ms
           /\ placed_log' = Append(placed_log, [voice |-> r.voice, how |-> r.how])
    /\ av_i' = av_i + 1
    /\ UNCHANGED <<pc, stream, ppq, tempo_map, abs_tick, ex_i, active, notes,
                   max_voices, out, n, max_marks, marks>>

\* Lines 121-132.
AssignReturn ==
    /\ pc = "assign"
    /\ av_i = Len(notes)
    /\ voices' = Pad(voices, max_voices)
    /\ pc' = "assigned"
    /\ UNCHANGED <<stream, ppq, tempo_map, abs_tick, ex_i, active, notes, max_voices,
                   end_ms, av_i, placed_log, out, n, max_marks, marks>>

(***************************************************************************)
(* Formatting                                                              *)
(***************************************************************************)
\* list(range(0, n, step))
RangeStep(k, step) == [i \in 1..((k + step - 1) \div step) |-> (i - 1) * step]

xlabel_marks(k, mm) ==
    IF k <= mm THEN [i \in 1..k |-> i - 1]
    ELSE LET q     == k \div mm
             step  == IF q >= 1 THEN q ELSE 1
             first == RangeStep(k, step)
         IN  IF first[Len(first)] # k - 1 THEN Append(first, k - 1) ELSE first

XlabelMarks ==
    /\ pc = "marks"
    /\ marks' = xlabel_marks(n, max_marks)
    /\ pc' = "marks_done"
    /\ UNCHANGED <<stream, ppq, tempo_map, abs_tick, ex_i, active, notes, max_voices,
                   voices, end_ms, av_i, placed_log, out, n, max_marks>>

\* table_lines: the resize, xlabel and data statements of one table.  The bounds
\* and ylabel statements are number formatting and are left out.
table_lines(name, values) ==
    [name   |-> name,
     resize |-> Len(values),
     xlabel |-> xlabel_marks(Len(values), DefaultMaxMarks),
     data   |-> values]

(***************************************************************************)
(* Main                                                                    *)
(***************************************************************************)
\* Lines 203-207: the tempo of the first set_tempo message of the file.
RECURSIVE FirstTempo(_, _)
FirstTempo(s, i) ==
    IF i > Len(s) THEN DefaultTempo
    ELSE IF s[i].type = "set_tempo" THEN s[i].tempo
    ELSE FirstTempo(s, i + 1)

\* Lines 220-234: seq_size, seq_metro and three tables for each voice.
AllLines(v, s) ==
    [seq_size  |-> Len(v[1]),
     seq_metro |-> FirstTempo(s, 1),
     tables    |-> [j \in 1..(3 * Len(v)) |->
                      LET vi == (j - 1) \div 3 + 1
                          f  == (j - 1) % 3
                      IN  IF f = 0
                          THEN table_lines(<<"seq_pitch", vi - 1>>,
                                           [x \in 1..Len(v[vi]) |-> v[vi][x].pitch])
                          ELSE IF f = 1
                          THEN table_lines(<<"seq_vel", vi - 1>>,
                                           [x \in 1..Len(v[vi]) |-> v[vi][x].vel])
                          ELSE table_lines(<<"seq_dur_ms", vi - 1>>,
                                           [x \in 1..Len(v[vi]) |-> v[vi][x].dur_ms])]]

\* MainNoNotes without the sys.exit(1): the run goes on with no notes.
MainNoNotes_FallThrough ==
    /\ pc = "main"
    /\ notes = <<>>
    /\ pc' = "write"
    /\ voices' = [i \in 1..max_voices |-> <<>>]
    /\ UNCHANGED <<stream, ppq, tempo_map, abs_tick, ex_i, active, notes, max_voices,
                   end_ms, av_i, placed_log, out, n, max_marks, marks>>

\* Lines 192-194: no notes, "No notes found." and sys.exit(1).
MainNoNotes ==
    /\ pc = "main"
    /\ notes = <<>>
    /\ pc' = "exit_no_notes"
    /\ UNCHANGED <<stream, ppq, tempo_map, abs_tick, ex_i, active, notes, max_voices,
                   voices, end_ms, av_i, placed_log, out, n, max_marks, marks>>

\* Line 196: voices = assign_voices(notes, max_voices).
MainAssign ==
    /\ pc = "main"
    /\ notes # <<>>
    /\ voices' = assign_voices(notes, max_voices)
    /\ pc' = "write"
    /\ UNCHANGED <<stream, ppq, tempo_map, abs_tick, ex_i, active, notes, max_voices,
                   end_ms, av_i, placed_log, out, n, max_marks, marks>>

\* Lines 197-241: the combined message is built and written.
MainWrite ==
    /\ pc = "write"
    /\ out' = AllLines(voices, stream)
    /\ pc' = "done"
    /\ UNCHANGED <<stream, ppq, tempo_map, abs_tick, ex_i, active, notes, max_voices,
                   voices, end_ms, av_i, placed_log, n, max_marks, marks>>

(***************************************************************************)
(* Specifications                                                          *)
(***************************************************************************)
\* The whole run of main on a file of at most MaxEvents messages.
Init ==
    /\ pc = "load"
    /\ stream = <<>>
    /\ ppq \in PPQs
    /\ tempo_map = <<>>
    /\ abs_tick = 0
    /\ ex_i = 0
    /\ active = NoActive
    /\ notes = <<>>
    /\ max_voices = DefaultMaxVoices
    /\ voices = <<>>
    /\ end_ms = <<>>
    /\ av_i = 0
    /\ placed_log = <<>>
    /\ out = <<>>
    /\ n = 0
    /\ max_marks = DefaultMaxMarks
    /\ marks = <<>>

Next ==
    \/ LoadEvent
    \/ ExtractStart
    \/ ExtractSetTempo
    \/ ExtractNoteOn
    \/ ExtractNoteOff
    \/ ExtractOther
    \/ ExtractReturn
    \/ MainNoNotes
    \/ MainAssign
    \/ MainWrite

Spec == Init /\ [][Next]_vars

\* The notes extract can return: sorted by (onset_ms, pitch), velocity > 0,
\* duration >= 0.
NoteValues ==
    {Note(p, v, d, o) : p \in Pitches, v \in {100}, d \in 0..MaxDur, o \in 0..MaxOnset}

IsSortedNotes(s) == \A i \in 1..(Len(s) - 1) : KeyLeq(s[i], s[i + 1])

NoteLists ==
    UNION {{s \in [1..k -> NoteValues] : IsSortedNotes(s)} : k \in 1..MaxNotes}

\* assign_voices on a sorted, non-empty note list.
InitAssign ==
    /\ pc = "assign"
    /\ stream = <<>>
    /\ ppq = 3
    /\ tempo_map = <<>>
    /\ abs_tick = 0
    /\ ex_i = 0
    /\ active = NoActive
    /\ notes \in NoteLists
    /\ max_voices \in 0..MaxVoicesBound
    /\ voices = <<>>
    /\ end_ms = <<>>
    /\ av_i = 0
    /\ placed_log = <<>>
    /\ out = <<>>
    /\ n = 0
    /\ max_marks = DefaultMaxMarks
    /\ marks = <<>>

NextAssign ==
    \/ PlaceFree
    \/ PlaceForced
    \/ PlaceNew
    \/ AssignReturn

SpecAssign == InitAssign /\ [][NextAssign]_vars

\* xlabel_marks on a table length and a mark count.
InitMarks ==
    /\ pc = "marks"
    /\ stream = <<>>
    /\ ppq = 3
    /\ tempo_map = <<>>
    /\ abs_tick = 0
    /\ ex_i = 0
    /\ active = NoActive
    /\ notes = <<>>
    /\ max_voices = 1
    /\ voices = <<>>
    /\ end_ms = <<>>
    /\ av_i = 0
    /\ placed_log = <<>>
    /\ out = <<>>
    /\ n \in 0..MaxN
    /\ max_marks \in (1..MaxMarksBound) \cup {DefaultMaxMarks}
    /\ marks = <<>>

NextMarks == XlabelMarks

SpecMarks == InitMarks /\ [][NextMarks]_vars

(***************************************************************************)
(* Timing claims (C3, C4), under Spec                                      *)
(***************************************************************************)
MapBuilt == pc # "load"

LastTick == TickOf(stream, Len(stream))

\* Every tick up to one quarter note past the last message of the file.
QueryTicks == 0..(LastTick + ppq)

Ms(t) == abs_ticks_to_ms(t, ppq, tempo_map)

RatLeq(a, b) ==
    IF a.den = b.den THEN a.num <= b.num ELSE a.num * b.den <= b.num * a.den

\* x is m milliseconds.
IsMs(x, m) == x.num = m * x.den

\* What build_tempo_map guarantees: first entry at tick 0, ticks non-decreasing
\* in list order, tempos > 0.
TempoMapShape ==
    /\ Len(tempo_map) >= 1
    /\ tempo_map[1].tick = 0
    /\ \A i \in 1..Len(tempo_map) : tempo_map[i].tempo > 0
    /\ \A i \in 1..(Len(tempo_map) - 1) : tempo_map[i].tick <= tempo_map[i + 1].tick

\* C3: abs_ticks_to_ms is monotonic non-decreasing in its tick argument on every
\* tempo map build_tempo_map produces (which has the shape the claim states),
\* and every extracted note has duration >= 0.
C3_Monotonic ==
    /\ MapBuilt =>
          /\ TempoMapShape
          /\ LET ms == [t \in QueryTicks |-> Ms(t)]
             IN  \A t1 \in QueryTicks : \A t2 \in QueryTicks :
                    t1 <= t2 => RatLeq(ms[t1], ms[t2])
    /\ \A k \in 1..Len(notes) : notes[k].dur_ms >= 0

\* A file with a tempo change after tick 0, where round(x, 3) rounds, and a note
\* that starts before the change and ends after it.
C3_Witness ==
    /\ pc = "main"
    /\ Len(tempo_map) = 2
    /\ tempo_map[2].tick = 1
    /\ Ms(1).num % ppq # 0
    /\ Len(notes) = 1
    /\ notes[1].onset_ms = 0
    /\ notes[1].dur_ms = Round3(Ms(2))
    /\ notes[1].dur_ms > Round3(Ms(1))

\* The tempo in force at tick t: that of the last entry, in list order, whose
\* start tick is <= t.
TempoAt(t) ==
    LET I == {i \in 1..Len(tempo_map) : tempo_map[i].tick <= t}
        last == CHOOSE i \in I : \A j \in I : j <= i
    IN  tempo_map[last].tempo

RECURSIVE TempoSum(_)
TempoSum(t) == IF t = 0 THEN 0 ELSE TempoSum(t - 1) + TempoAt(t - 1)

\* result * ppq * 1000 is the sum of the tempo in force over the ticks 0..tick-1.
C4_Integral ==
    MapBuilt =>
        \A t \in QueryTicks :
            /\ Ms(t).den = ppq * 1000
            /\ Ms(t).num = TempoSum(t)

ExampleMap(p) == <<Seg(0, 500000), Seg(p, 1000000)>>

\* The example of the claim on the program's own state, in any tick unit: the
\* tempo changes to 1000000 one quarter note (ppq ticks) after the start.
InExampleState == MapBuilt /\ tempo_map = ExampleMap(ppq)

\* C4 as stated, with its example (tick 960 -> 1000 ms): refuted.
C4_Original ==
    /\ C4_Integral
    /\ IsMs(abs_ticks_to_ms(480, 480, ExampleMap(480)), 500)
    /\ InExampleState => IsMs(Ms(ppq), 500) /\ IsMs(Ms(2 * ppq), 1000)

\* C4, amended: abs_ticks_to_ms(tick) is the integral of the piecewise-constant
\* tempo over [0, tick), so a tick on a segment boundary is charged at the earlier
\* tempos only and of several changes at one tick the later applies; in the
\* example (map [(0,500000),(480,1000000)], ppq 480) tick 480 is 500 ms and tick
\* 960 is 1500 ms.
C4_IntegralAmended ==
    /\ C4_Integral
    /\ IsMs(abs_ticks_to_ms(480, 480, ExampleMap(480)), 500)
    /\ IsMs(abs_ticks_to_ms(960, 480, ExampleMap(480)), 1500)
    /\ InExampleState => IsMs(Ms(ppq), 500) /\ IsMs(Ms(2 * ppq), 1500)

\* The example's state: the tempo changes one quarter note after the start.
C4_Witness ==
    /\ InExampleState
    /\ 2 * ppq \in QueryTicks
    /\ pc = "extract"

(***************************************************************************)
(* Pipeline claim (C5), under Spec                                         *)
(***************************************************************************)
\* C5: with zero notes extracted the run ends in the "no notes found" state, where
\* no voice was assigned and nothing was written; assignment and the write happen
\* only with a non-empty note list.
C5_NoNotesNoOutput ==
    /\ pc = "main" /\ notes = <<>> => ENABLED MainNoNotes /\ ~ENABLED MainAssign
    /\ pc = "exit_no_notes" =>
          notes = <<>> /\ voices = <<>> /\ out = <<>> /\ ~ENABLED Next
    /\ (pc \in {"write", "done"} \/ voices # <<>> \/ out # <<>>) => notes # <<>>

\* The file has messages, none of them closes a note, and the run has stopped.
C5_Witness ==
    /\ pc = "exit_no_notes"
    /\ Len(stream) = MaxEvents
    /\ \E i \in 1..Len(stream) : stream[i].type = "note_on" /\ stream[i].velocity > 0

(***************************************************************************)
(* Extraction claim (C7), under Spec                                       *)
(***************************************************************************)
KeyOf(m) == <<m.note, m.channel>>

IsNoteMsg(m) == m.type \in {"note_on", "note_off"}

\* The last note message for key before message j, 0 when there is none.
LastKeyEvent(s, j, key) ==
    LET I == {i \in 1..(j - 1) : IsNoteMsg(s[i]) /\ KeyOf(s[i]) = key}
    IN  IF I = {} THEN 0 ELSE CHOOSE i \in I : \A x \in I : x <= i

\* key is open before message j: its last note message is a note_on, velocity > 0.
OpenBefore(s, j, key) ==
    LET i == LastKeyEvent(s, j, key)
    IN  i # 0 /\ s[i].type = "note_on" /\ s[i].velocity > 0

\* The note a closing message j emits: tick and velocity of the most recent note_on.
EmittedBy(s, j) ==
    LET i == LastKeyEvent(s, j, KeyOf(s[j]))
    IN  ClosedNote(s[j].note, s[i].velocity, TickOf(s, i), TickOf(s, j), ppq, tempo_map)

RECURSIVE ExpectedNotes(_, _)
ExpectedNotes(s, k) ==
    IF k = 0 THEN <<>>
    ELSE ExpectedNotes(s, k - 1)
         \o (IF IsClosing(s[k]) /\ OpenBefore(s, k, KeyOf(s[k]))
             THEN <<EmittedBy(s, k)>> ELSE <<>>)

ExpectedActive(s, k) ==
    [key \in {x \in Keys : OpenBefore(s, k + 1, x)} |->
        LET i == LastKeyEvent(s, k + 1, key)
        IN  [tick |-> TickOf(s, i), vel |-> s[i].velocity]]

SeqRange(s) == {s[i] : i \in 1..Len(s)}

BagOfSeq(s) == [x \in SeqRange(s) |-> Cardinality({i \in 1..Len(s) : s[i] = x})]

\* C7: after any number of messages, the notes emitted are exactly one per closing
\* message that found its key open, each with the tick and velocity of the most
\* recent note_on of the key, and the open-note table holds exactly the keys
\* whose last note message is a note_on with velocity > 0; the notes returned
\* are those notes, sorted, so notes left open emit nothing.
C7_Pairing ==
    /\ pc = "extract" =>
          /\ notes = ExpectedNotes(stream, ex_i)
          /\ active = ExpectedActive(stream, ex_i)
          /\ abs_tick = TickOf(stream, ex_i)
    /\ pc \in {"main", "exit_no_notes", "write", "done"} =>
          /\ BagOfSeq(notes) = BagOfSeq(ExpectedNotes(stream, Len(stream)))
          /\ Len(notes) = Len(ExpectedNotes(stream, Len(stream)))
          /\ IsSortedNotes(notes)

\* A key opened twice at different ticks with different velocities, then closed:
\* one note, with the second note_on's tick and velocity.
C7_Witness ==
    /\ pc = "main"
    /\ Len(stream) = 3
    /\ stream[1].type = "note_on" /\ stream[2].type = "note_on"
    /\ stream[1].velocity > 0 /\ stream[2].velocity > 0
    /\ stream[1].velocity # stream[2].velocity
    /\ stream[2].time > 0 /\ stream[3].time > 0
    /\ IsClosing(stream[3])
    /\ KeyOf(stream[1]) = KeyOf(stream[2]) /\ KeyOf(stream[2]) = KeyOf(stream[3])
    /\ Len(notes) = 1
    /\ notes[1].vel = stream[2].velocity
    /\ notes[1].onset_ms = Round3(Ms(TickOf(stream, 2)))

(***************************************************************************)
(* Voice assignment claims (C1, C2, C8, C9, C10), under SpecAssign         *)
(***************************************************************************)
\* The indices, in input order, of the notes placed so far in voice i.
PlacedIn(i) == {j \in 1..Len(placed_log) : placed_log[j].voice = i}

\* The end (onset + duration) of note j.
EndOf(j) == notes[j].onset_ms + notes[j].dur_ms

\* The number of entries of a voice that are notes.
NonSilent(v) == Cardinality({x \in 1..Len(v) : v[x] # Silence})

MaxIn(S) == CHOOSE c \in S : \A d \in S : d <= c

MinIn(S) == CHOOSE c \in S : \A d \in S : c <= d

\* C1: assign_voices returns exactly max_voices voices, all of the length n of
\* the voice holding the most notes; a voice never used is n silences.
C1_ExactVoices ==
    pc = "assigned" /\ max_voices >= 1 =>
        LET most == MaxIn({NonSilent(voices[i]) : i \in 1..Len(voices)})
        IN  /\ Len(voices) = max_voices
            /\ most >= 1
            /\ \A i \in 1..Len(voices) :
                  /\ Len(voices[i]) = most
                  /\ PlacedIn(i) = {} => voices[i] = Rests(most)

\* Scenario E: more voices asked for than used; every note went to voice 0.
C1_Witness ==
    /\ pc = "assigned"
    /\ max_voices = MaxVoicesBound
    /\ Len(notes) = MaxNotes
    /\ \A j \in 1..Len(placed_log) : placed_log[j].voice = 1
    /\ voices[max_voices] = Rests(MaxNotes)

\* j2 follows j1 immediately in voice i.
Consecutive(i, j1, j2) ==
    /\ j1 \in PlacedIn(i) /\ j2 \in PlacedIn(i) /\ j1 < j2
    /\ \A j \in PlacedIn(i) : ~(j1 < j /\ j < j2)

\* C2: a note placed by the free-voice rule or as the first note of a new voice
\* starts no earlier than the end of the note before it in its voice.
C2_NoOverlapUnlessForced ==
    max_voices >= 1 =>
        \A i \in 1..Len(voices) : \A j1 \in PlacedIn(i) : \A j2 \in PlacedIn(i) :
            Consecutive(i, j1, j2) /\ placed_log[j2].how # "forced" =>
                notes[j2].onset_ms >= EndOf(j1)

\* A voice that took a forced note and then a free one.
C2_Witness ==
    /\ Len(placed_log) = 3
    /\ placed_log[2].how = "forced"
    /\ placed_log[3].how = "free"
    /\ placed_log[3].voice = placed_log[2].voice
    /\ notes[2].dur_ms > 0

\* The voices that exist before note k is placed, and the end of the last note of
\* each.
VoicesBefore(k) == {placed_log[j].voice : j \in 1..(k - 1)}

EndBefore(k, i) == EndOf(MaxIn({j \in PlacedIn(i) : j < k}))

\* The voice and branch the stated rule gives note k.
RuleFor(k) ==
    LET V    == VoicesBefore(k)
        free == {i \in V : EndBefore(k, i) <= notes[k].onset_ms}
        low  == MinIn({EndBefore(k, i) : i \in V})
    IN  IF free # {} THEN [voice |-> MinIn(free), how |-> "free"]
        ELSE IF Cardinality(V) < max_voices
        THEN [voice |-> Cardinality(V) + 1, how |-> "new"]
        ELSE [voice |-> MinIn({i \in V : EndBefore(k, i) = low}), how |-> "forced"]

ScenarioC ==
    <<Note(60, 100, 200000, 0), Note(62, 100, 200000, 100000),
      Note(64, 100, 50000, 150000)>>

\* C8: every note goes to the lowest free voice, else to a new voice below the
\* cap, else to the voice with the least end_ms (lowest index on ties), and the
\* voice's end_ms becomes the note's onset + duration; onsets 0, 100, 150 with
\* durations 200, 200, 50 and two voices go to voices 0, 1, 0.
C8_PlacementRule ==
    /\ max_voices >= 1 /\ pc = "assign" =>
          /\ \A k \in 1..Len(placed_log) : placed_log[k] = RuleFor(k)
          /\ Len(placed_log) = av_i
          /\ DOMAIN end_ms = VoicesBefore(av_i + 1)
          /\ \A i \in DOMAIN end_ms : end_ms[i] = EndBefore(av_i + 1, i)
    /\ assign_voices(ScenarioC, 2) =
          << <<EntryOf(ScenarioC[1]), EntryOf(ScenarioC[3])>>,
             <<EntryOf(ScenarioC[2]), Silence>> >>

\* The example's shape: two voices taken, the third note forced into voice 0,
\* whose end is the least.
C8_Witness ==
    /\ pc = "assign"
    /\ max_voices = 2
    /\ placed_log = <<[voice |-> 1, how |-> "new"], [voice |-> 2, how |-> "new"],
                      [voice |-> 1, how |-> "forced"]>>
    /\ notes[3].onset_ms > notes[2].onset_ms
    /\ end_ms[1] < end_ms[2]

\* The notes of voice i in input order.
RECURSIVE NotesOf(_, _)
NotesOf(i, k) ==
    IF k = 0 THEN <<>>
    ELSE NotesOf(i, k - 1)
         \o (IF placed_log[k].voice = i THEN <<EntryOf(notes[k])>> ELSE <<>>)

RECURSIVE Flatten(_)
Flatten(v) == IF v = <<>> THEN <<>> ELSE v[1] \o Flatten(Tail(v))

NotSilent(x) == x # Silence

\* C9: the notes of the voices are the input notes, each once; in a voice they
\* keep the input order and silences come only after the last note.
C9_NoLossNoDup ==
    max_voices >= 1 /\ pc \in {"assign", "assigned"} =>
        LET placed == [k \in 1..av_i |-> EntryOf(notes[k])]
            held   == SelectSeq(Flatten(voices), NotSilent)
        IN  /\ BagOfSeq(held) = BagOfSeq(placed)
            /\ Len(held) = av_i
            /\ \A i \in 1..Len(voices) :
                  LET m == NonSilent(voices[i])
                  IN  /\ \A x \in 1..m : voices[i][x] # Silence
                      /\ SubSeq(voices[i], 1, m) = NotesOf(i, av_i)

\* All notes placed, one of them forced, one voice padded, two notes equal.
C9_Witness ==
    /\ pc = "assigned"
    /\ Len(notes) = 3
    /\ \E j \in 1..3 : placed_log[j].how = "forced"
    /\ \E i \in 1..Len(voices) : voices[i][Len(voices[i])] = Silence /\ voices[i][1] # Silence
    /\ EntryOf(notes[1]) = EntryOf(notes[3])

\* C10 as stated: end_ms[i] is at or after the end of every note of voice i, and a
\* note placed by the free-voice rule starts at or after the end of every
\* earlier note of its voice: refuted.
C10_Original ==
    /\ \A i \in DOMAIN end_ms : \A j \in PlacedIn(i) : end_ms[i] >= EndOf(j)
    /\ \A k \in 1..Len(placed_log) :
          placed_log[k].how = "free" =>
              \A j \in PlacedIn(placed_log[k].voice) :
                  j < k => notes[k].onset_ms >= EndOf(j)

NoForcedIn(i) == \A j \in PlacedIn(i) : placed_log[j].how # "forced"

\* C10, amended: after every placement end_ms[i] is the onset + duration of the
\* last note placed in voice i; it is at or after the end of every note of voice
\* i, and a note placed there by the free-voice rule overlaps no earlier note of
\* the voice, as long as no note of voice i was force-assigned.
C10_EndOfLastNote ==
    max_voices >= 1 /\ pc = "assign" =>
        /\ \A i \in DOMAIN end_ms :
              /\ PlacedIn(i) # {}
              /\ end_ms[i] = EndOf(MaxIn(PlacedIn(i)))
              /\ NoForcedIn(i) => \A j \in PlacedIn(i) : end_ms[i] >= EndOf(j)
        /\ \A k \in 1..Len(placed_log) :
              placed_log[k].how = "free" /\ NoForcedIn(placed_log[k].voice) =>
                  \A j \in PlacedIn(placed_log[k].voice) :
                      j < k => notes[k].onset_ms >= EndOf(j)

\* A voice with three notes, none forced, the last two placed by the free rule.
C10_Witness ==
    /\ pc = "assign"
    /\ Len(placed_log) = 3
    /\ \A j \in 1..3 : placed_log[j].voice = 1
    /\ placed_log[2].how = "free" /\ placed_log[3].how = "free"
    /\ notes[1].dur_ms > 0 /\ notes[2].dur_ms > 0
    /\ end_ms[1] > EndOf(1)

(***************************************************************************)
(* Tick mark claim (C6), under SpecMarks                                   *)
(***************************************************************************)
\* C6: xlabel_marks(n, max_marks) is strictly increasing, within 0..n-1, and has
\* at most max_marks entries.
C6_Capped ==
    pc = "marks_done" =>
        /\ \A i \in 1..(Len(marks) - 1) : marks[i] < marks[i + 1]
        /\ \A i \in 1..Len(marks) : marks[i] \in 0..(n - 1)
        /\ Len(marks) <= max_marks

====
